---- MODULE Spec2Model ----
(***************************************************************************)
(* Model of class Lexer (src/Lexer/src/Lexer.cpp): the scanner object      *)
(* (input, position, keywords) and its public operation tokenize(), which  *)
(* a client may call any number of times on the same object.               *)
(*                                                                         *)
(* Characters are one-character strings, texts are sequences of them.      *)
(* position is the 0-based C++ offset; input[position] in the code is      *)
(* input[position + 1] here.                                               *)
(*                                                                         *)
(* Brace structure of tokenize (lines 158-203), as the compiler reads it:  *)
(*   160  while (position < input.length()) {                              *)
(*   161-200  one if / else-if chain (whitespace, isAlpha, isDigit,         *)
(*            operator, delimiter, else)                                   *)
(*   201      return tokens;       <- inside the loop body                 *)
(*   202  }                        <- closes the while                     *)
(*   203  };                       <- closes tokenize, no return statement *)
(* So a call dispatches one character class and returns; a call entered    *)
(* with position >= input.length() flows off the end of a value-returning  *)
(* function, which is undefined behaviour.                                 *)
(***************************************************************************)
EXTENDS Integers, Sequences, FiniteSets, TLC

\* ------------------------------------------------------------------ bounds

\* Longest input text explored.
MaxLen == 4

\* Most calls of tokenize() made on one Lexer object.
MaxCalls == 3

\* ------------------------------------------------------------- characters

LowerCase ==
    {"a", "b", "c", "d", "e", "f", "g", "h", "i", "j", "k", "l", "m",
     "n", "o", "p", "q", "r", "s", "t", "u", "v", "w", "x", "y", "z"}

UpperCase ==
    {"A", "B", "C", "D", "E", "F", "G", "H", "I", "J", "K", "L", "M",
     "N", "O", "P", "Q", "R", "S", "T", "U", "V", "W", "X", "Y", "Z"}

DigitChars == {"0", "1", "2", "3", "4", "5", "6", "7", "8", "9"}

\* The characters inputs are drawn from: one whitespace, two letters (they
\* spell the keyword "if"), a digit, the dot, an operator, a delimiter and a
\* character of no class.
Alphabet == {" ", "i", "f", "1", ".", "+", ":", "@"}

\* The terminator std::string keeps at input[input.length()].
NUL == "NUL"

\* All input texts of length 0..MaxLen over Alphabet.
Inputs == UNION {[1..n -> Alphabet] : n \in 0..MaxLen}

\* --------------------------------------------------------------- keywords

keywordsWithoutIf ==
    {<<"i", "n", "t">>, <<"f", "l", "o", "a", "t">>,
     <<"s", "t", "r", "i", "n", "g">>, <<"e", "l", "s", "e">>,
     <<"w", "h", "i", "l", "e">>, <<"f", "o", "r">>,
     <<"s", "w", "i", "t", "c", "h">>, <<"c", "a", "s", "e">>,
     <<"d", "e", "f", "a", "u", "l", "t">>, <<"b", "r", "e", "a", "k">>,
     <<"c", "o", "n", "t", "i", "n", "u", "e">>,
     <<"r", "e", "t", "u", "r", "n">>, <<"v", "o", "i", "d">>}

\* initKeywords: the keys of the keywords map; every value is Keyword.
keywords ==
    {<<"i", "n", "t">>, <<"f", "l", "o", "a", "t">>,
     <<"s", "t", "r", "i", "n", "g">>, <<"i", "f">>, <<"e", "l", "s", "e">>,
     <<"w", "h", "i", "l", "e">>, <<"f", "o", "r">>,
     <<"s", "w", "i", "t", "c", "h">>, <<"c", "a", "s", "e">>,
     <<"d", "e", "f", "a", "u", "l", "t">>, <<"b", "r", "e", "a", "k">>,
     <<"c", "o", "n", "t", "i", "n", "u", "e">>,
     <<"r", "e", "t", "u", "r", "n">>, <<"v", "o", "i", "d">>}

\* ------------------------------------------------------------------ state

VARIABLES
    input,      \* Lexer::input
    position,   \* Lexer::position
    tokens,     \* the local vector<Token> of the running call
    result,     \* the vector the last finished call handed to its caller
    pc,         \* "idle" | "while" | "return" | "done" | "crashed"
    calls,      \* calls of tokenize() started on this object
    branch,     \* branch of the if-chain the running call took, or "none"
    start       \* position when the running call reached the if-chain

vars == <<input, position, tokens, result, pc, calls, branch, start>>

\* struct Token
Token(t, v) == [type |-> t, value |-> v]

\* ------------------------------------------------------------- predicates

isWhitespace(c) == c = " " \/ c = "\t" \/ c = "\n" \/ c = "\r"

isAlphaLettersOnly(c) == c \in LowerCase \/ c \in UpperCase

isAlpha(c) == c \in LowerCase \/ c \in UpperCase \/ c \in DigitChars

isDigit(c) == c \in DigitChars

isAlphaNumeric(c) == isAlpha(c) \/ isDigit(c)

\* '+', '-', '*', '/', '//', '%': the multi-character constant '//' is an int
\* no char compares equal to, as the two-character string is no character.
isOperatorChar(c) ==
    c = "+" \/ c = "-" \/ c = "*" \/ c = "/" \/ c = "//" \/ c = "%"

\* '(', ')', ':', ':3', '[', ']': ':3' likewise equals no char.
isDelimiterChar(c) ==
    c = "(" \/ c = ")" \/ c = ":" \/ c = ":3" \/ c = "[" \/ c = "]"

\* ------------------------------------------------------------ sub-scanners

\* input.substr(from, to - from) for from <= to <= input.length().
substr(from, to) == SubSeq(input, from + 1, to)

getNextWordOneChar(p) ==
    IF p < Len(input) /\ isAlphaNumeric(input[p + 1]) THEN p + 1 ELSE p

\* The loop of getNextWord started with position = p: the position it ends at.
RECURSIVE getNextWord(_)
getNextWord(p) ==
    IF p < Len(input) /\ isAlphaNumeric(input[p + 1])
    THEN getNextWord(p + 1)
    ELSE p

\* The loop of getNextNumber started with position = p: where it ends.
RECURSIVE getNextNumber(_)
getNextNumber(p) ==
    IF p < Len(input) /\ (isDigit(input[p + 1]) \/ input[p + 1] = ".")
    THEN getNextNumber(p + 1)
    ELSE p

\* number.find('.') != string::npos
containsDot(s) == \E i \in DOMAIN s : s[i] = "."

\* keywords.find(word) != keywords.end() ? keywords[word] : Identifier
wordType(word) == IF word \in keywords THEN "Keyword" ELSE "Identifier"

\* ------------------------------------------------------------- the if-chain

\* Lines 161-200 run with c as the character read at input[position]: the
\* new position and token vector, the branch taken, and whether substr threw
\* std::out_of_range (its start offset beyond input.length()).
Dispatch(c) ==
    IF isWhitespace(c) THEN
        [position |-> position + 1, tokens |-> tokens,
         branch |-> "whitespace", threw |-> FALSE]
    ELSE IF isAlpha(c) THEN
        LET q == getNextWord(position) IN
        IF position > Len(input) THEN
            [position |-> q, tokens |-> tokens, branch |-> "word", threw |-> TRUE]
        ELSE
            LET word == substr(position, q) IN
            [position |-> q,
             tokens |-> Append(tokens, Token(wordType(word), word)),
             branch |-> "word", threw |-> FALSE]
    ELSE IF isDigit(c) THEN
        LET q == getNextNumber(position) IN
        IF position > Len(input) THEN
            [position |-> q, tokens |-> tokens, branch |-> "digit", threw |-> TRUE]
        ELSE
            LET number == substr(position, q) IN
            IF containsDot(number) THEN
                [position |-> q, tokens |-> Append(tokens, Token("Float", number)),
                 branch |-> "digit", threw |-> FALSE]
            ELSE
                [position |-> q + 1, tokens |-> tokens,
                 branch |-> "digit", threw |-> FALSE]
    ELSE IF isOperatorChar(c) THEN
        [position |-> position + 1,
         tokens |-> Append(tokens, Token("Operator", <<c>>)),
         branch |-> "operator", threw |-> FALSE]
    ELSE IF isDelimiterChar(c) THEN
        [position |-> position + 1,
         tokens |-> Append(tokens, Token("Delimiter", <<c>>)),
         branch |-> "delimiter", threw |-> FALSE]
    ELSE
        [position |-> position + 1,
         tokens |-> Append(tokens, Token("Unknown", <<c>>)),
         branch |-> "unknown", threw |-> FALSE]

\* The state after lines 161-200 ran on character c: on to line 201, or out
\* of the call with the exception.
RunBody(c) ==
    LET r == Dispatch(c) IN
    /\ position' = r.position
    /\ tokens' = r.tokens
    /\ branch' = r.branch
    /\ start' = position
    /\ pc' = IF r.threw THEN "crashed" ELSE "return"
    /\ UNCHANGED <<input, result, calls>>

\* What a read of input[p] can give when p >= input.length(): the terminator
\* at p = input.length(), any byte beyond it.
ReadPastEnd(p) == IF p = Len(input) THEN {NUL} ELSE Alphabet \cup {NUL}

\* ---------------------------------------------------------------- actions

\* Lexer(const string& input) : input(input), position(0)
Init ==
    /\ input \in Inputs
    /\ position = 0
    /\ tokens = <<>>
    /\ result = <<>>
    /\ pc = "idle"
    /\ calls = 0
    /\ branch = "none"
    /\ start = 0

\* A client calls tokenize(): vector<Token> tokens; (lines 158-159).
Call ==
    /\ pc \in {"idle", "done"}
    /\ calls < MaxCalls
    /\ calls' = calls + 1
    /\ tokens' = <<>>
    /\ branch' = "none"
    /\ start' = position
    /\ pc' = "while"
    /\ UNCHANGED <<input, position, result>>

\* Line 160 holds: the loop body runs on input[position] (lines 161-200).
Iterate ==
    /\ pc = "while"
    /\ position < Len(input)
    /\ RunBody(input[position + 1])

\* Line 201: return tokens;
Return ==
    /\ pc = "return"
    /\ result' = tokens
    /\ pc' = "done"
    /\ UNCHANGED <<input, position, tokens, calls, branch, start>>

\* Line 160 fails: control flows off the end of tokenize (line 203), which is
\* undefined.  Build outcome 1 (g++ -O0): the call returns the local vector,
\* empty, and leaves the object alone.
FallOffReturnsEmpty ==
    /\ pc = "while"
    /\ position >= Len(input)
    /\ result' = tokens
    /\ pc' = "done"
    /\ UNCHANGED <<input, position, tokens, calls, branch, start>>

\* Build outcome 2 (g++ -O1, -O2): the loop test is compiled away, the body
\* runs on whatever input[position] reads and line 201 returns.
FallOffRunsBody ==
    /\ pc = "while"
    /\ position >= Len(input)
    /\ \E c \in ReadPastEnd(position) : RunBody(c)

\* Build outcome 3 (a build that plants a trap where control would flow off
\* the end, as clang++ does): the process dies.
FallOffCrashes ==
    /\ pc = "while"
    /\ position >= Len(input)
    /\ pc' = "crashed"
    /\ UNCHANGED <<input, position, tokens, result, calls, branch, start>>

Next ==
    \/ Call
    \/ Iterate
    \/ Return
    \/ FallOffReturnsEmpty
    \/ FallOffRunsBody
    \/ FallOffCrashes

Spec == Init /\ [][Next]_vars

\* ------------------------------------------------- vocabulary of the claims

WhitespaceChars == {" ", "\t", "\n", "\r"}

OperatorChars == {"+", "-", "*", "/", "%"}

DelimiterChars == {"(", ")", ":", "[", "]"}

AlnumChars == LowerCase \cup UpperCase \cup DigitChars

NumberChars == DigitChars \cup {"."}

\* The 14 spellings of the Keyword Table.
KeywordSpellings ==
    {<<"i", "n", "t">>, <<"f", "l", "o", "a", "t">>,
     <<"s", "t", "r", "i", "n", "g">>, <<"i", "f">>, <<"e", "l", "s", "e">>,
     <<"w", "h", "i", "l", "e">>, <<"f", "o", "r">>,
     <<"s", "w", "i", "t", "c", "h">>, <<"c", "a", "s", "e">>,
     <<"d", "e", "f", "a", "u", "l", "t">>, <<"b", "r", "e", "a", "k">>,
     <<"c", "o", "n", "t", "i", "n", "u", "e">>,
     <<"r", "e", "t", "u", "r", "n">>, <<"v", "o", "i", "d">>}

\* The first call on a freshly constructed scanner has returned.
FirstCallReturned == calls = 1 /\ pc = "done"

\* The texts of a token sequence, concatenated in order.
RECURSIVE TextOf(_)
TextOf(ts) == IF ts = <<>> THEN <<>> ELSE Head(ts).value \o TextOf(Tail(ts))

NotWhitespace(c) == c \notin WhitespaceChars

InOperatorChars(c) == c \in OperatorChars

InDelimiterChars(c) == c \in DelimiterChars

IsOperatorToken(t) == t.type = "Operator"

IsDelimiterToken(t) == t.type = "Delimiter"

\* One token of kind k per character of s, in order.
OneTokenEach(k, s) == [i \in DOMAIN s |-> Token(k, <<s[i]>>)]

\* The end q of the maximal run of characters of class cls that starts at
\* offset p: every character of input[p..q) is in cls, and q is the end of the
\* input or holds a character outside cls.
IsRunEnd(p, q, cls) ==
    /\ q \in p..Len(input)
    /\ \A k \in (p + 1)..q : input[k] \in cls
    /\ (q = Len(input) \/ input[q + 1] \notin cls)

\* ------------------------------------------------------------------ claims

\* C1: a call of tokenize on a fresh scanner returns only when the cursor
\* equals length(input), never after a proper prefix of the input.
C1_ReturnsOnlyAtEnd == FirstCallReturned => position = Len(input)

\* C2: the returned sequence is lossless: the input with its whitespace
\* removed is exactly the concatenation of the token texts.
C2_Lossless ==
    FirstCallReturned => TextOf(result) = SelectSeq(input, NotWhitespace)

\* C3: a maximal run of digits and dots that starts with a digit is emitted as
\* one token whose text is the run, Float when it holds a dot, else Integer.
C3_NumericClassification ==
    (FirstCallReturned /\ Len(input) > 0 /\ input[1] \in DigitChars) =>
        /\ result # <<>>
        /\ \E q \in 1..Len(input) :
            /\ IsRunEnd(0, q, NumberChars)
            /\ result[1].value = SubSeq(input, 1, q)
            /\ result[1].type =
                 IF \E k \in 1..q : input[k] = "." THEN "Float" ELSE "Integer"

\* C4: a word token is a Keyword exactly when its text is one of the 14
\* Keyword Table spellings; every other word the word scanner returns is an
\* Identifier.
C4_KeywordPrecedence ==
    /\ \A i \in DOMAIN tokens :
         tokens[i].type \in {"Keyword", "Identifier"} =>
            (tokens[i].type = "Keyword" <=> tokens[i].value \in KeywordSpellings)
    /\ (branch = "word" /\ pc = "return") =>
         /\ tokens # <<>>
         /\ tokens[Len(tokens)].type =
              IF tokens[Len(tokens)].value \in KeywordSpellings
              THEN "Keyword" ELSE "Identifier"

\* C4 witness: the word scanner returned the keyword spelling "if" and the
\* call is about to hand out its token.
C4_Witness ==
    /\ branch = "word"
    /\ pc = "return"
    /\ tokens # <<>>
    /\ tokens[Len(tokens)] = Token("Keyword", <<"i", "f">>)

\* C5: a character of no class appends exactly one Unknown token holding that
\* character, advances the cursor by one, and the scan goes on to the
\* following character instead of stopping: the call is not at its return
\* statement while input remains.
C5_UnknownContinues ==
    (/\ pc = "return"
     /\ start < Len(input)
     /\ input[start + 1] \notin
          WhitespaceChars \cup AlnumChars \cup OperatorChars \cup DelimiterChars)
    =>
        /\ tokens = <<Token("Unknown", <<input[start + 1]>>)>>
        /\ position = start + 1
        /\ position = Len(input)

\* C6: every occurrence of an operator character yields its own one-character
\* Operator token and every occurrence of a delimiter character its own
\* one-character Delimiter token, adjacent or not.
C6_NeverCombine ==
    FirstCallReturned =>
        /\ SelectSeq(result, IsOperatorToken) =
             OneTokenEach("Operator", SelectSeq(input, InOperatorChars))
        /\ SelectSeq(result, IsDelimiterToken) =
             OneTokenEach("Delimiter", SelectSeq(input, InDelimiterChars))

\* C7: on empty input and on input made of whitespace only, tokenize returns
\* the empty token sequence after consuming the whole input.
C7_EmptyAndBlank ==
    (FirstCallReturned /\ \A k \in DOMAIN input : input[k] \in WhitespaceChars)
    =>
        /\ result = <<>>
        /\ position = Len(input)

\* C8: 0 <= cursor <= length(input) in every state, the cursor never moves
\* back, and an iteration entered with cursor < length(input) leaves the
\* cursor at least one further.
C8_CursorInvariant ==
    /\ 0 <= position
    /\ position <= Len(input)
    /\ start <= position
    /\ (pc = "return" /\ start < Len(input)) => position >= start + 1

\* C9: the digit branch of the if-chain is never taken, so getNextNumber is
\* never invoked.
C9_DigitBranchUnreachable == branch # "digit"

\* C9 witness: a digit was dispatched, and it went to the word branch.
C9_Witness ==
    /\ branch = "word"
    /\ start < Len(input)
    /\ input[start + 1] \in DigitChars

\* C10: entered at cursor p on an alphanumeric character, the word scanner
\* consumes at least one character, leaves the cursor at the first q >= p that
\* is the end of the input or holds a non-alphanumeric character, and returns
\* exactly input[p..q); so the character after a word token never continues
\* the word.
C10_WordMaximalMunch ==
    (/\ branch = "word"
     /\ start < Len(input)
     /\ input[start + 1] \in AlnumChars)
    =>
        /\ pc # "crashed"
        /\ position > start
        /\ IsRunEnd(start, position, AlnumChars)
        /\ tokens # <<>>
        /\ tokens[Len(tokens)].value = SubSeq(input, start + 1, position)

\* C10 witness: a later call entered the word scanner past the start of the
\* input and it consumed a letter followed by a digit.
C10_Witness ==
    /\ branch = "word"
    /\ pc = "return"
    /\ start > 0
    /\ position >= start + 2
    /\ input[start + 1] \in LowerCase
    /\ input[position] \in DigitChars

====
